---------------------------- MODULE Spec2Model ----------------------------
(***************************************************************************)
(* A model of the parameter-validation decorator of src/required_params.py *)
(* and of the VkApi client of src/vk/vk.py that declares its operations    *)
(* through it.                                                             *)
(*                                                                         *)
(* Python values are tagged records [type, value]: None, a tuple (a        *)
(* sequence) or a dict (a function from key to value).  Python strings are *)
(* TLA+ strings; the module's strings are ASCII, so a non-ASCII character  *)
(* of a source literal is written as Python writes it under the            *)
(* unicode_escape codec (\uXXXX).                                          *)
(***************************************************************************)
EXTENDS Integers, Sequences, FiniteSets, TLC

VARIABLES
    op,           \* the function last invoked ("none" before the first invocation)
    parameters,   \* the configuration it was declared with: check_params(**parameters)
    args,         \* the positional arguments of the invocation (after self)
    kwargs,       \* its keyword arguments
    verdicts,     \* what each registered rule class answered for it
    errors,       \* the aggregate set_errors built for it
    called,       \* the calls of the wrapped function it made, with their arguments
    func_result,  \* what the wrapped function returned or raised
    outcome,      \* what the invocation returned or raised to its caller
    trace,        \* its steps in order: set_errors, func, has_method, request, json
    request,      \* the HTTP request it dispatched
    response,     \* the answer of the server to that request
    counter,      \* the entries into the wrapped body it made (a side-effect counter)
    params_after, \* the params object the caller passed, as the invocation left it
    first         \* history: the first invocation of the run, kept under SpecFirst

vars == <<op, parameters, args, kwargs, verdicts, errors, called,
          func_result, outcome, trace, request, response, counter,
          params_after, first>>

-----------------------------------------------------------------------------
(* Bounds of the model *)

\* longest required_params tuple of a generically declared operation
MaxRequired == 2
\* most or_params groups of a generically declared operation
MaxGroups == 2
\* most invocations that follow the first one in a run of SpecFirst
MaxLater == 2

-----------------------------------------------------------------------------
(* Python values *)

None == [type |-> "NoneType", value |-> <<>>]
Tuple(s) == [type |-> "tuple", value |-> s]
Dict(d) == [type |-> "dict", value |-> d]

\* bool(v): None, () and {} are falsy
Truthy(v) == v.type # "NoneType" /\ DOMAIN v.value # {}

\* a or b
PyOr(a, b) == IF Truthy(a) THEN a ELSE b

\* x in c: key membership for a dict, element membership for a tuple
PyIn(x, c) ==
    CASE c.type = "dict" -> x \in DOMAIN c.value
      [] c.type = "tuple" -> \E i \in DOMAIN c.value : c.value[i] = x
      [] OTHER -> FALSE

\* d.get(k): the value under k, None when k is no key of d
DictGet(d, k) == IF k \in DOMAIN d THEN d[k] ELSE None

RECURSIVE StrRFind(_, _, _)
\* s.rfind(sub) looking from index i down: the index found, 0 when none
StrRFind(s, sub, i) ==
    IF i < 1 THEN 0
    ELSE IF SubSeq(s, i, i + Len(sub) - 1) = sub THEN i
    ELSE StrRFind(s, sub, i - 1)

\* template.format(arg) for a template with at most one replacement field "{}"
\* (with one argument str.format accepts no more): the field replaced by arg
StrFormat(template, arg) ==
    LET i == StrRFind(template, "{}", Len(template) - 1)
    IN  IF i = 0 THEN template
        ELSE SubSeq(template, 1, i - 1) \o arg \o SubSeq(template, i + 2, Len(template))

RECURSIVE StrJoin(_, _)
\* sep.join(items)
StrJoin(sep, items) ==
    IF Len(items) = 0 THEN ""
    ELSE IF Len(items) = 1 THEN items[1]
    ELSE items[1] \o sep \o StrJoin(sep, Tail(items))

\* s.startswith(prefix)
StartsWith(s, prefix) ==
    Len(prefix) <= Len(s) /\ SubSeq(s, 1, Len(prefix)) = prefix

-----------------------------------------------------------------------------
(* src/required_params.py: the rule classes *)

\* the default of BaseCheck._error_status_code
DefaultErrorStatusCode == 400

\* BaseCheck.__init__ as it would be with the error list shared between
\* instances: an instance starts from the errors of the invocation before
BaseCheck_init_shared_errors(params, config) ==
    [errors |-> errors,
     params |-> PyOr(params, Tuple(<<>>)),
     error_status_code |-> DefaultErrorStatusCode]

\* BaseCheck.__init__: a fresh instance with its own empty error list
BaseCheck_init(params, config) ==
    [errors |-> <<>>,
     params |-> PyOr(params, Tuple(<<>>)),
     error_status_code |-> DefaultErrorStatusCode]

\* the errors property: a tuple copy of the private list
errors_getter(self) == Tuple(self.errors)

\* the errors setter: appends val to the private list
errors_setter(self, val) == [self EXCEPT !.errors = Append(@, val)]

\* the message of RequiredParamsCheck in another language than the source's
RequiredParamsCheck_error_message_english == "missing required parameter {}"

\* 'Отсутствует обязательный параметр {}'
RequiredParamsCheck_error_message ==
    "\\u041e\\u0442\\u0441\\u0443\\u0442\\u0441\\u0442\\u0432\\u0443\\u0435\\u0442 \\u043e\\u0431\\u044f\\u0437\\u0430\\u0442\\u0435\\u043b\\u044c\\u043d\\u044b\\u0439 \\u043f\\u0430\\u0440\\u0430\\u043c\\u0435\\u0442\\u0440 {}"

RequiredParamsCheck_init(params, config) ==
    [self |-> BaseCheck_init(params, config),
     required_params |-> DictGet(config, "required_params")]

\* _check_param looking the name up in the configuration, not in the params
RequiredParamsCheck_check_param_in_config(inst, required_param) ==
    IF PyIn(required_param, inst.required_params) THEN TRUE ELSE FALSE

RequiredParamsCheck_check_param(inst, required_param) ==
    IF PyIn(required_param, inst.self.params) THEN TRUE ELSE FALSE

RECURSIVE RequiredParamsCheck_loop(_, _)
\* the for loop of RequiredParamsCheck.check_params, from index i on
RequiredParamsCheck_loop(inst, i) ==
    IF i > Len(inst.required_params.value) THEN inst
    ELSE LET required_param == inst.required_params.value[i]
             next == IF ~RequiredParamsCheck_check_param(inst, required_param)
                     THEN [inst EXCEPT !.self = errors_setter(@,
                             StrFormat(RequiredParamsCheck_error_message, required_param))]
                     ELSE inst
         IN  RequiredParamsCheck_loop(next, i + 1)

RequiredParamsCheck_check_params(inst) ==
    IF ~Truthy(inst.required_params) THEN None
    ELSE errors_getter(RequiredParamsCheck_loop(inst, 1).self)

\* 'Отсутвтвует как минимум один из обязательных параметров {}'
OrParamsCheck_error_message ==
    "\\u041e\\u0442\\u0441\\u0443\\u0442\\u0432\\u0442\\u0432\\u0443\\u0435\\u0442 \\u043a\\u0430\\u043a \\u043c\\u0438\\u043d\\u0438\\u043c\\u0443\\u043c \\u043e\\u0434\\u0438\\u043d \\u0438\\u0437 \\u043e\\u0431\\u044f\\u0437\\u0430\\u0442\\u0435\\u043b\\u044c\\u043d\\u044b\\u0445 \\u043f\\u0430\\u0440\\u0430\\u043c\\u0435\\u0442\\u0440\\u043e\\u0432 {}"

OrParamsCheck_init(params, config) ==
    [self |-> BaseCheck_init(params, config),
     or_params |-> DictGet(config, "or_params")]

\* _check_param with all() in the place of any()
OrParamsCheck_check_param_all(inst, or_params) ==
    \A i \in DOMAIN or_params : PyIn(or_params[i], inst.self.params)

OrParamsCheck_check_param(inst, or_params) ==
    \E i \in DOMAIN or_params : PyIn(or_params[i], inst.self.params)

RECURSIVE OrParamsCheck_loop(_, _)
\* the for loop of OrParamsCheck.check_params, from index i on
OrParamsCheck_loop(inst, i) ==
    IF i > Len(inst.or_params.value) THEN inst
    ELSE LET or_params == inst.or_params.value[i]
             next == IF ~OrParamsCheck_check_param(inst, or_params)
                     THEN [inst EXCEPT !.self = errors_setter(@,
                             StrFormat(OrParamsCheck_error_message, StrJoin(", ", or_params)))]
                     ELSE inst
         IN  OrParamsCheck_loop(next, i + 1)

OrParamsCheck_check_params(inst) ==
    IF ~Truthy(inst.or_params) THEN None
    ELSE errors_getter(OrParamsCheck_loop(inst, 1).self)

\* BaseCheck.__subclasses__(): the rule classes in definition order
BaseCheck_subclasses == <<"RequiredParamsCheck", "OrParamsCheck">>

\* checker_cls(params, **parameters).check_params()
RunChecker(checker_cls, params, config) ==
    IF checker_cls = "RequiredParamsCheck"
    THEN RequiredParamsCheck_check_params(RequiredParamsCheck_init(params, config))
    ELSE OrParamsCheck_check_params(OrParamsCheck_init(params, config))

RECURSIVE set_errors_loop(_, _, _, _)
\* the for loop of set_errors, from registry index i on
set_errors_loop(params, config, acc, i) ==
    IF i > Len(BaseCheck_subclasses) THEN acc
    ELSE LET e == RunChecker(BaseCheck_subclasses[i], params, config)
         IN  set_errors_loop(params, config,
                             IF Truthy(e) THEN acc \o e.value ELSE acc, i + 1)

\* set_errors stopping at the first rule that reports errors
set_errors_first_failure(params, config) ==
    LET failing == {i \in DOMAIN BaseCheck_subclasses :
                        Truthy(RunChecker(BaseCheck_subclasses[i], params, config))}
    IN  IF failing = {} THEN <<>>
        ELSE RunChecker(BaseCheck_subclasses[CHOOSE i \in failing :
                            \A j \in failing : i <= j], params, config).value

\* check_params.inner_function.set_errors
set_errors(params, config) == set_errors_loop(params, config, <<>>, 1)

-----------------------------------------------------------------------------
(* src/vk/methods.py: the catalog of remote operations *)

VkApiMethods_base_url == "https://api.vk.com/method/"
VkApiMethods_version == "5.131"

CREATE_COMMENT == "wall.createComment"
GET_COMMENT == "wall.getComment"
GET_COMMENTS == "wall.getComments"
GET_LIKES == "wall.getLikes"
GET_REPOSTS == "wall.getReposts"
GET_CONVERSATIONS == "messages.getConversations"
GET_HISTORY == "messages.getHistory"
GET_POSTS == "wall.get"
GET_USERS_INFO == "users.get"
PUBLISH_POST == "wall.post"
DELETE_POST == "wall.delete"
SEND_MESSAGE == "messages.send"
GET_CALLBACK_CONFIRMATION_CODE == "groups.getCallbackConfirmationCode"
ADD_CALLBACK_SERVER == "groups.addCallbackServer"
GET_CALLBACK_SERVERS == "groups.getCallbackServers"
UPLOAD_PHOTO == "photos.getWallUploadServer"
SAVE_PHOTO == "photos.saveWallPhoto"
SAVE_VIDEO == "video.save"

\* VkApiMethods.__http_methods
VkApiMethods_http_methods ==
    [m \in {CREATE_COMMENT, GET_COMMENT, GET_COMMENTS, GET_LIKES, GET_REPOSTS,
            GET_CONVERSATIONS, GET_HISTORY, GET_POSTS, GET_USERS_INFO,
            PUBLISH_POST, DELETE_POST, SEND_MESSAGE,
            GET_CALLBACK_CONFIRMATION_CODE, ADD_CALLBACK_SERVER,
            GET_CALLBACK_SERVERS, UPLOAD_PHOTO, SAVE_PHOTO, SAVE_VIDEO} |->
        IF m \in {CREATE_COMMENT, PUBLISH_POST, DELETE_POST, SEND_MESSAGE,
                  ADD_CALLBACK_SERVER, UPLOAD_PHOTO, SAVE_PHOTO, SAVE_VIDEO}
        THEN "POST" ELSE "GET"]

VkApiMethods_get_http_method(rpc_method) ==
    IF rpc_method \in DOMAIN VkApiMethods_http_methods
    THEN VkApiMethods_http_methods[rpc_method] ELSE "None"

VkApiMethods_has_method(method) == method \in DOMAIN VkApiMethods_http_methods

\* VkApiMethods.get_url: the joined endpoint, "/"-terminated, and the query
\* that requests' prepare_url encodes from params
VkApiMethods_get_url(method, params) ==
    LET joined == VkApiMethods_base_url \o method
        url == IF Len(joined) > 0 /\ SubSeq(joined, Len(joined), Len(joined)) = "/"
               THEN joined ELSE joined \o "/"
    IN  [url |-> url, query |-> params]

-----------------------------------------------------------------------------
(* src/vk/vk.py: VkApi *)

\* dict.update: the entries of b over those of a
DictUpdate(a, b) ==
    [k \in DOMAIN a \cup DOMAIN b |-> IF k \in DOMAIN b THEN b[k] ELSE a[k]]

\* d[k] = v
DictSet(d, k, v) == [x \in DOMAIN d \cup {k} |-> IF x = k THEN v ELSE d[x]]

RECURSIVE StrLStrip(_, _)
StrLStrip(s, c) ==
    IF Len(s) > 0 /\ SubSeq(s, 1, 1) = c THEN StrLStrip(SubSeq(s, 2, Len(s)), c) ELSE s

RECURSIVE StrRStrip(_, _)
StrRStrip(s, c) ==
    IF Len(s) > 0 /\ SubSeq(s, Len(s), Len(s)) = c
    THEN StrRStrip(SubSeq(s, 1, Len(s) - 1), c) ELSE s

\* s.strip(c) for a one-character c
StrStrip(s, c) == StrRStrip(StrLStrip(s, c), c)

VkApiResponse(body, status_code) == [body |-> body, status_code |-> status_code]

\* VkApi.__init__
VkApi_init(owner_id, token, group_token) ==
    [owner_id |-> owner_id, token |-> token, group_token |-> group_token]

\* the client the operations are invoked on: a community page
api == VkApi_init("-1", "user-token", "group-token")

\* VkApi._get_url
_get_url(self, api_method, params) ==
    LET token == IF StartsWith(api_method, "messages") \/ StartsWith(api_method, "groups")
                 THEN self.group_token ELSE self.token
        defaults == ("owner_id" :> self.owner_id) @@ ("access_token" :> token)
                        @@ ("v" :> VkApiMethods_version)
        p == DictUpdate(params, DictUpdate(defaults, params))
    IN  VkApiMethods_get_url(api_method, p)

\* what a call returns or raises
Return(value) == [errors |-> <<>>, value |-> value, kind |-> "return", exc |-> ""]
Raise(exc, errs) ==
    [errors |-> errs, value |-> VkApiResponse(<<>>, 0), kind |-> "raise", exc |-> exc]
NoOutcome == [errors |-> <<>>, value |-> VkApiResponse(<<>>, 0), kind |-> "none", exc |-> ""]

NoRequest == [method |-> "", url |-> "", query |-> <<>>]
NoResponse == [body |-> <<>>, status_code |-> 0, json |-> FALSE]

\* the body of the 404 response: 'Метод не существует'
UnknownMethodBody ==
    [response |-> [error |-> "\\u041c\\u0435\\u0442\\u043e\\u0434 \\u043d\\u0435 \\u0441\\u0443\\u0449\\u0435\\u0441\\u0442\\u0432\\u0443\\u0435\\u0442"]]

\* the body of the 502 response: 'Сервер не вернул валидный json.'
BadJsonBody ==
    [response |-> [error |-> "\\u0421\\u0435\\u0440\\u0432\\u0435\\u0440 \\u043d\\u0435 \\u0432\\u0435\\u0440\\u043d\\u0443\\u043b \\u0432\\u0430\\u043b\\u0438\\u0434\\u043d\\u044b\\u0439 json."]]

\* VkApi._send_api_request; resp is what the server answers when asked.
\* Gives the outcome, the steps taken and the request dispatched.
_send_api_request(self, api_method, params, resp) ==
    IF ~VkApiMethods_has_method(api_method)
    THEN [outcome |-> Return(VkApiResponse(UnknownMethodBody, 404)),
          trace |-> <<"has_method">>, request |-> NoRequest, response |-> NoResponse]
    ELSE IF params.type # "dict"
    THEN [outcome |-> Raise("AttributeError", <<>>),
          trace |-> <<"has_method">>, request |-> NoRequest, response |-> NoResponse]
    ELSE LET u == _get_url(self, api_method, params.value)
             req == [method |-> VkApiMethods_get_http_method(api_method),
                     url |-> u.url, query |-> u.query]
         IN  IF ~resp.json
             THEN [outcome |-> Return(VkApiResponse(BadJsonBody, 502)),
                   trace |-> <<"has_method", "request", "json">>, request |-> req,
                   response |-> resp]
             ELSE [outcome |-> Return(VkApiResponse(resp.body, resp.status_code)),
                   trace |-> <<"has_method", "request", "json">>, request |-> req,
                   response |-> resp]

-----------------------------------------------------------------------------
(* src/vk/vk.py: the operations declared through check_params *)

\* the @check_params(...) declaration of each decorated operation
Declared ==
    [publish_post |-> ("or_params" :> Tuple(<<<<"message", "attachments">>>>)),
     delete_post |-> ("required_params" :> Tuple(<<"post_id">>)),
     get_comment |-> ("required_params" :> Tuple(<<"post_id">>)),
     get_comments |-> ("or_params" :> Tuple(<<<<"post_id", "comment_id">>>>)),
     create_comment |-> ("required_params" :> Tuple(<<"post_id">>)),
     get_history |-> ("or_params" :> Tuple(<<<<"user_id", "peer_id">>>>)),
     send_message |-> ("or_params" :> Tuple(<<<<"peer_ids", "peer_id", "user_id">>,
                                              <<"message", "attachment">>>>)),
     get_users_info |-> ("required_params" :> Tuple(<<"users_id">>)),
     upload_photo |-> ("required_params" :> Tuple(<<"group_id">>)),
     save_photo |-> ("required_params" :> Tuple(<<"group_id", "server", "photo", "hash">>)),
     save_video |-> ("required_params" :> Tuple(<<"group_id">>)),
     add_callback_server |-> ("required_params" :> Tuple(<<"url", "title", "secret_key">>))]

\* the remote operation each method sends
ApiMethodOf ==
    [publish_post |-> PUBLISH_POST, delete_post |-> DELETE_POST,
     get_comment |-> GET_COMMENT, get_comments |-> GET_COMMENTS,
     create_comment |-> CREATE_COMMENT, get_history |-> GET_HISTORY,
     send_message |-> SEND_MESSAGE, get_users_info |-> GET_USERS_INFO,
     upload_photo |-> UPLOAD_PHOTO, save_photo |-> SAVE_PHOTO,
     save_video |-> SAVE_VIDEO, add_callback_server |-> ADD_CALLBACK_SERVER,
     get_posts |-> GET_POSTS, get_conversations |-> GET_CONVERSATIONS,
     get_callback_confirmation_code |-> GET_CALLBACK_CONFIRMATION_CODE,
     get_callback_servers |-> GET_CALLBACK_SERVERS]

\* the methods whose body assigns to its params argument before it sends
AssigningMethods ==
    {"send_message", "add_callback_server", "get_callback_confirmation_code",
     "get_callback_servers"}

\* the dict of the caller after the assignment the body of fn makes to it:
\* params['random_id'] = ..., params['group_id'] = self.owner_id.strip('-')
BodyParams(self, fn, params, rnd) ==
    CASE fn = "send_message" ->
            Dict(DictSet(params.value, "random_id", rnd))
      [] fn \in AssigningMethods \ {"send_message"} ->
            Dict(DictSet(params.value, "group_id", StrStrip(self.owner_id, "-")))
      [] OTHER -> params

\* the value a body that was never entered leaves behind
NotEntered(out) ==
    [outcome |-> out, trace |-> <<>>, request |-> NoRequest, response |-> NoResponse,
     entered |-> 0]

\* the body of a VkApi method, entered with its params argument bound
MethodBody(self, fn, params, rnd, resp) ==
    LET p == BodyParams(self, fn, params, rnd)
    IN  IF fn \in AssigningMethods /\ params.type # "dict"
        THEN [outcome |-> Raise("TypeError", <<>>), trace |-> <<>>,
              request |-> NoRequest, response |-> NoResponse, entered |-> 1]
        ELSE LET r == _send_api_request(self, ApiMethodOf[fn], p, resp)
             IN  [outcome |-> r.outcome, trace |-> r.trace, request |-> r.request,
                  response |-> r.response, entered |-> 1]

\* the result of the function given to check_params when it is no VkApi method
FuncResult == VkApiResponse([func |-> "result"], 200)

\* func(*args, **kwargs): the call of the wrapped function.  A VkApi method
\* takes exactly one params argument, by position or by keyword.
func(self, fn, a, kw, rnd, resp) ==
    IF fn = "func"
    THEN [outcome |-> Return(FuncResult), trace |-> <<>>, request |-> NoRequest,
          response |-> NoResponse, entered |-> 1]
    ELSE IF Len(a) + (IF "params" \in DOMAIN kw THEN 1 ELSE 0) # 1
    THEN NotEntered(Raise("TypeError", <<>>))
    ELSE MethodBody(self, fn, IF Len(a) = 1 THEN a[1] ELSE kw["params"], rnd, resp)

\* the params object of the caller after the invocation: the body, when it
\* was entered with a dict, has made its assignment to that same object
ParamsAfter(self, fn, a, kw, rnd, entered) ==
    LET passed == IF Len(a) > 0 THEN a[1] ELSE DictGet(kw, "params")
    IN  IF entered = 1 /\ fn \in AssigningMethods /\ passed.type = "dict"
        THEN BodyParams(self, fn, passed, rnd)
        ELSE passed

\* the wrapper calling the function before it looks at the errors
wrapper_calls_first(self, fn, config, a, kw, rnd, resp) ==
    LET errs == set_errors(DictGet(kw, "params"), config)
        r == func(self, fn, a, kw, rnd, resp)
    IN  [errors |-> errs, called |-> <<[args |-> a, kwargs |-> kw]>>,
         func_result |-> r.outcome,
         outcome |-> IF errs # <<>> THEN Raise("MissingParams", errs) ELSE r.outcome,
         trace |-> <<"set_errors", "func">> \o r.trace,
         request |-> r.request, response |-> r.response, entered |-> r.entered]

\* the wrapper without its return statement: the result of the function is lost
wrapper_drops_result(self, fn, config, a, kw, rnd, resp) ==
    LET errs == set_errors(DictGet(kw, "params"), config)
    IN  IF errs # <<>>
        THEN [errors |-> errs, called |-> <<>>, func_result |-> NoOutcome,
              outcome |-> Raise("MissingParams", errs),
              trace |-> <<"set_errors">>, request |-> NoRequest,
              response |-> NoResponse, entered |-> 0]
        ELSE LET r == func(self, fn, a, kw, rnd, resp)
             IN  [errors |-> errs, called |-> <<[args |-> a, kwargs |-> kw]>>,
                  func_result |-> r.outcome,
                  outcome |-> Return(VkApiResponse(<<>>, 0)),
                  trace |-> <<"set_errors", "func">> \o r.trace,
                  request |-> r.request, response |-> r.response,
                  entered |-> r.entered]

\* the wrapper answering a validation failure with a response, as
\* _send_api_request answers its failures, in the place of raising
wrapper_returns_failure(self, fn, config, a, kw, rnd, resp) ==
    LET errs == set_errors(DictGet(kw, "params"), config)
    IN  IF errs # <<>>
        THEN [errors |-> errs, called |-> <<>>, func_result |-> NoOutcome,
              outcome |-> Return(VkApiResponse([response |-> [error |-> errs]],
                                               DefaultErrorStatusCode)),
              trace |-> <<"set_errors">>, request |-> NoRequest,
              response |-> NoResponse, entered |-> 0]
        ELSE LET r == func(self, fn, a, kw, rnd, resp)
             IN  [errors |-> errs, called |-> <<[args |-> a, kwargs |-> kw]>>,
                  func_result |-> r.outcome, outcome |-> r.outcome,
                  trace |-> <<"set_errors", "func">> \o r.trace,
                  request |-> r.request, response |-> r.response,
                  entered |-> r.entered]

\* the wrapper taking params from the first positional argument when
\* there is one
wrapper_reads_positional(self, fn, config, a, kw, rnd, resp) ==
    LET errs == set_errors(IF Len(a) > 0 THEN a[1] ELSE DictGet(kw, "params"), config)
    IN  IF errs # <<>>
        THEN [errors |-> errs, called |-> <<>>, func_result |-> NoOutcome,
              outcome |-> Raise("MissingParams", errs),
              trace |-> <<"set_errors">>, request |-> NoRequest,
              response |-> NoResponse, entered |-> 0]
        ELSE LET r == func(self, fn, a, kw, rnd, resp)
             IN  [errors |-> errs, called |-> <<[args |-> a, kwargs |-> kw]>>,
                  func_result |-> r.outcome, outcome |-> r.outcome,
                  trace |-> <<"set_errors", "func">> \o r.trace,
                  request |-> r.request, response |-> r.response,
                  entered |-> r.entered]

\* check_params.inner_function.wrapper around fn declared with config,
\* invoked with positional arguments a (after self) and keyword arguments kw
wrapper(self, fn, config, a, kw, rnd, resp) ==
    \* errors = set_errors(kwargs.get('params'))
    LET errs == set_errors(DictGet(kw, "params"), config)
    IN  IF errs # <<>>
        THEN [errors |-> errs, called |-> <<>>, func_result |-> NoOutcome,
              outcome |-> Raise("MissingParams", errs),
              trace |-> <<"set_errors">>, request |-> NoRequest,
              response |-> NoResponse, entered |-> 0]
        ELSE LET r == func(self, fn, a, kw, rnd, resp)
             IN  [errors |-> errs, called |-> <<[args |-> a, kwargs |-> kw]>>,
                  func_result |-> r.outcome, outcome |-> r.outcome,
                  trace |-> <<"set_errors", "func">> \o r.trace,
                  request |-> r.request, response |-> r.response,
                  entered |-> r.entered]

\* each registered rule's own result for one parameter set and configuration
RuleResults(params, config) ==
    [i \in DOMAIN BaseCheck_subclasses |->
        [cls |-> BaseCheck_subclasses[i],
         result |-> RunChecker(BaseCheck_subclasses[i], params, config)]]

-----------------------------------------------------------------------------
(* Inputs *)

\* values a caller gives to a parameter
ParamValue == "1"

\* the parameter dicts over a set of keys, and None
ParamsOver(keys) == {None} \cup {Dict([k \in K |-> ParamValue]) : K \in SUBSET keys}

\* the ways a caller passes params: by keyword, by position, or not at all
CallsOver(keys) ==
    {[args |-> <<>>, kwargs |-> ("params" :> v)] : v \in ParamsOver(keys)}
        \cup {[args |-> <<v>>, kwargs |-> <<>>] : v \in ParamsOver(keys)}
        \cup {[args |-> <<>>, kwargs |-> <<>>]}

\* the names a configuration mentions
ConfigNames(config) ==
    (IF "required_params" \in DOMAIN config
     THEN {config["required_params"].value[i] : i \in DOMAIN config["required_params"].value}
     ELSE {})
    \cup
    (IF "or_params" \in DOMAIN config
     THEN UNION {{g[j] : j \in DOMAIN g} :
                    g \in {config["or_params"].value[i] : i \in DOMAIN config["or_params"].value}}
     ELSE {})

\* the keys a caller of fn may give: the names its declaration mentions and,
\* for get_users_info, the name its documentation requires
InputKeys(fn) ==
    ConfigNames(Declared[fn]) \cup (IF fn = "get_users_info" THEN {"user_ids"} ELSE {})

\* the answers of the server: parseable or not, with a status
Responses ==
    {[body |-> [response |-> [items |-> "1"]], status_code |-> 200, json |-> TRUE],
     [body |-> [error |-> [error_code |-> "5"]], status_code |-> 500, json |-> TRUE],
     [body |-> <<>>, status_code |-> 500, json |-> FALSE]}

\* the values random.randint(1, 2**31-1) may give: its two ends
RandomIds == {1, 2147483647}

\* sequences over S of length at most n
SeqsUpTo(S, n) == UNION {[1..k -> S] : k \in 0..n}

\* parameter names and groups of the generically declared operations
GenericNames == {"post_id", "comment_id"}
GenericGroups == {<<>>, <<"post_id">>, <<"post_id", "comment_id">>}

\* the calls of a generically declared operation: params by keyword, the
\* full dict by position, or no argument
GenericCalls ==
    {[args |-> <<>>, kwargs |-> ("params" :> v)] : v \in ParamsOver(GenericNames)}
        \cup {[args |-> <<Dict([k \in GenericNames |-> ParamValue])>>, kwargs |-> <<>>],
              [args |-> <<>>, kwargs |-> <<>>]}

\* configurations of generically declared operations: one rule configured
\* with tuples up to the bounds, or both rules with at most one group
GenericConfigs ==
    {<<>>}
    \cup {("required_params" :> Tuple(r)) : r \in SeqsUpTo(GenericNames, MaxRequired)}
    \cup {("or_params" :> Tuple(g)) : g \in SeqsUpTo(GenericGroups, MaxGroups)}
    \cup {("required_params" :> Tuple(r)) @@ ("or_params" :> Tuple(g)) :
            r \in SeqsUpTo(GenericNames, MaxRequired), g \in SeqsUpTo(GenericGroups, 1)}

-----------------------------------------------------------------------------
(* The state machine: the state is the last invocation and what it did *)

NoFirst == [parameters |-> <<>>, errors |-> <<>>, params |-> None, later |-> 0]

Init ==
    /\ op = "none"
    /\ parameters = <<>>
    /\ args = <<>>
    /\ kwargs = <<>>
    /\ verdicts = <<>>
    /\ errors = <<>>
    /\ called = <<>>
    /\ func_result = NoOutcome
    /\ outcome = NoOutcome
    /\ trace = <<>>
    /\ request = NoRequest
    /\ response = NoResponse
    /\ counter = 0
    /\ params_after = None
    /\ first = NoFirst

\* one invocation of the wrapper of fn, declared with config
Invoke(fn, config, a, kw, rnd, resp) ==
    \E w \in {wrapper(api, fn, config, a, kw, rnd, resp)} :
        /\ op' = fn
        /\ parameters' = config
        /\ args' = a
        /\ kwargs' = kw
        /\ verdicts' = RuleResults(DictGet(kw, "params"), config)
        /\ errors' = w.errors
        /\ called' = w.called
        /\ func_result' = w.func_result
        /\ outcome' = w.outcome
        /\ trace' = w.trace
        /\ request' = w.request
        /\ response' = w.response
        /\ counter' = w.entered
        /\ params_after' = ParamsAfter(api, fn, a, kw, rnd, w.entered)

\* the answers that matter to a call: every answer when the call is admitted
\* and reaches the server, one when it is rejected before
AnswersFor(config, kw) ==
    IF set_errors(DictGet(kw, "params"), config) = <<>>
    THEN Responses ELSE {CHOOSE r \in Responses : TRUE}

\* a call of the decorated VkApi method fn
Method(fn) ==
    \E c \in CallsOver(InputKeys(fn)) :
    \E resp \in AnswersFor(Declared[fn], c.kwargs) :
    \E rnd \in (IF fn = "send_message" /\ Cardinality(AnswersFor(Declared[fn], c.kwargs)) > 1
                THEN RandomIds ELSE {1}) :
        Invoke(fn, Declared[fn], c.args, c.kwargs, rnd, resp) /\ UNCHANGED first

publish_post == Method("publish_post")
delete_post == Method("delete_post")
get_comment == Method("get_comment")
get_comments == Method("get_comments")
create_comment == Method("create_comment")
get_history == Method("get_history")
send_message == Method("send_message")
get_users_info == Method("get_users_info")
upload_photo == Method("upload_photo")
save_photo == Method("save_photo")
save_video == Method("save_video")
add_callback_server == Method("add_callback_server")

\* a call of a function decorated with any configuration
decorated_func ==
    \E config \in GenericConfigs, c \in GenericCalls :
        /\ Invoke("func", config, c.args, c.kwargs, 1, CHOOSE r \in Responses : TRUE)
        /\ UNCHANGED first

\* the keys a caller of the undecorated method fn may give
PlainKeys(fn) ==
    IF fn \in AssigningMethods THEN {"count", "group_id"} ELSE {"count"}

\* a call of the VkApi method fn that no check_params wraps: the body runs
\* whenever the arguments bind
Plain(fn) ==
    \E c \in CallsOver(PlainKeys(fn)) :
    \E resp \in Responses :
    \E r \in {func(api, fn, c.args, c.kwargs, 1, resp)} :
        /\ op' = fn
        /\ parameters' = <<>>
        /\ args' = c.args
        /\ kwargs' = c.kwargs
        /\ verdicts' = <<>>
        /\ errors' = <<>>
        /\ called' = <<>>
        /\ func_result' = r.outcome
        /\ outcome' = r.outcome
        /\ trace' = r.trace
        /\ request' = r.request
        /\ response' = r.response
        /\ counter' = r.entered
        /\ params_after' = ParamsAfter(api, fn, c.args, c.kwargs, 1, r.entered)
        /\ UNCHANGED first

get_posts == Plain("get_posts")
get_conversations == Plain("get_conversations")
get_callback_confirmation_code == Plain("get_callback_confirmation_code")
get_callback_servers == Plain("get_callback_servers")

\* a direct call of VkApi._send_api_request, no validation before it
send_api_request ==
    \E m \in DOMAIN VkApiMethods_http_methods \cup {"wall.unknown"} :
    \E p \in {Dict("count" :> ParamValue)} :
    \E resp \in (IF VkApiMethods_has_method(m) THEN Responses
                 ELSE {CHOOSE r \in Responses : TRUE}) :
    \E r \in {_send_api_request(api, m, p, resp)} :
            /\ op' = "_send_api_request"
            /\ parameters' = <<>>
            /\ args' = <<m, p>>
            /\ kwargs' = <<>>
            /\ verdicts' = <<>>
            /\ errors' = <<>>
            /\ called' = <<>>
            /\ func_result' = r.outcome
            /\ outcome' = r.outcome
            /\ trace' = r.trace
            /\ request' = r.request
            /\ response' = r.response
            /\ counter' = 0
            /\ params_after' = p
            /\ UNCHANGED first

Next ==
    \/ publish_post
    \/ delete_post
    \/ get_comment
    \/ get_comments
    \/ create_comment
    \/ get_history
    \/ send_message
    \/ get_users_info
    \/ upload_photo
    \/ save_photo
    \/ save_video
    \/ add_callback_server
    \/ get_posts
    \/ get_conversations
    \/ get_callback_confirmation_code
    \/ get_callback_servers
    \/ decorated_func
    \/ send_api_request

Spec == Init /\ [][Next]_vars

-----------------------------------------------------------------------------
(* Runs that remember their first invocation: a mix of decorated operations *)
(* over the same parameter names, each run 1 + MaxLater invocations long    *)

\* the history of the run: its first invocation, and how many followed it
RecordFirst ==
    first' = IF op = "none"
             THEN [parameters |-> parameters', errors |-> errors',
                   params |-> DictGet(kwargs', "params"), later |-> 0]
             ELSE [first EXCEPT !.later = @ + 1]

\* the configurations of the functions decorated for these runs
FirstConfigs ==
    {<<>>,
     ("required_params" :> Tuple(<<"post_id">>)),
     ("or_params" :> Tuple(<<<<"post_id", "comment_id">>>>)),
     ("required_params" :> Tuple(<<"comment_id", "post_id">>))
        @@ ("or_params" :> Tuple(<<<<"post_id">>, <<"comment_id">>>>))}

again_method(fn) ==
    /\ first.later < MaxLater
    /\ \E c \in CallsOver(InputKeys(fn)) :
       \E resp \in AnswersFor(Declared[fn], c.kwargs) :
            Invoke(fn, Declared[fn], c.args, c.kwargs, 1, resp) /\ RecordFirst

again_delete_post == again_method("delete_post")
again_get_comments == again_method("get_comments")

again_decorated_func ==
    /\ first.later < MaxLater
    /\ \E config \in FirstConfigs, c \in GenericCalls :
        /\ Invoke("func", config, c.args, c.kwargs, 1, CHOOSE r \in Responses : TRUE)
        /\ RecordFirst

NextFirst ==
    \/ again_delete_post
    \/ again_get_comments
    \/ again_decorated_func

SpecFirst == Init /\ [][NextFirst]_vars

-----------------------------------------------------------------------------
(* What the claims speak of *)

\* the last invocation went through a wrapper made by check_params
Decorated == op \in DOMAIN Declared \cup {"func"}

\* the ParameterSet the wrapper validated: kwargs.get('params')
ValidatedParams == DictGet(kwargs, "params")

\* the parameter names a value supplies
KeysOf(v) == IF v.type = "dict" THEN DOMAIN v.value ELSE {}

\* the required names and the alternative groups a configuration declares
RequiredOf(config) ==
    IF "required_params" \in DOMAIN config THEN config["required_params"].value ELSE <<>>
GroupsOf(config) ==
    IF "or_params" \in DOMAIN config THEN config["or_params"].value ELSE <<>>

Members(g) == {g[j] : j \in DOMAIN g}

\* the errors a RequiredRule owes for params: one per absent name, in order
RequiredErrorsFor(params, config) ==
    LET missing == SelectSeq(RequiredOf(config), LAMBDA n : n \notin KeysOf(params))
    IN  [i \in 1..Len(missing) |-> StrFormat(RequiredParamsCheck_error_message, missing[i])]

\* the errors an AlternativeGroupRule owes for params: one per group with
\* no member present, in order
GroupErrorsFor(params, config) ==
    LET unmet == SelectSeq(GroupsOf(config), LAMBDA g : Members(g) \cap KeysOf(params) = {})
    IN  [i \in 1..Len(unmet) |->
            StrFormat(OrParamsCheck_error_message, StrJoin(", ", unmet[i]))]

\* the errors of a rule result: none when the rule answered None
ErrorsOf(result) == result.value

SeqRange(q) == {q[i] : i \in DOMAIN q}

-----------------------------------------------------------------------------
\* C1: whenever the aggregate of an invocation of a decorated operation is
\* non-empty, the invocation raises MissingParams carrying that aggregate and
\* the wrapped function is never called: the body is not entered (the
\* side-effect counter stays at zero) and no request is dispatched.
C1_RejectedBeforeBody ==
    (Decorated /\ errors # <<>>) =>
        /\ outcome = Raise("MissingParams", errors)
        /\ called = <<>>
        /\ counter = 0
        /\ request = NoRequest
        /\ trace = <<"set_errors">>

\* send_message called with no params: both of its groups unmet, rejected
C1_Witness ==
    /\ op = "send_message"
    /\ Len(errors) = 2
    /\ outcome.kind = "raise"

\* C2: RequiredParamsCheck answers with one error for each name of
\* required_params that is absent from the params, in the order of
\* required_params, and with no error when every name is present, when
\* required_params is empty or when the key is absent.
C2_RequiredErrors ==
    Decorated =>
        /\ verdicts[1].cls = "RequiredParamsCheck"
        /\ ErrorsOf(verdicts[1].result) = RequiredErrorsFor(ValidatedParams, parameters)
        /\ (\/ "required_params" \notin DOMAIN parameters
            \/ RequiredOf(parameters) = <<>>
            \/ Members(RequiredOf(parameters)) \subseteq KeysOf(ValidatedParams))
                => ErrorsOf(verdicts[1].result) = <<>>

\* two required names, the first present and the second absent
C2_Witness ==
    /\ op = "func"
    /\ RequiredOf(parameters) = <<"comment_id", "post_id">>
    /\ KeysOf(ValidatedParams) = {"comment_id"}
    /\ Len(ErrorsOf(verdicts[1].result)) = 1

\* C3: OrParamsCheck answers with one error for each group of or_params
\* that has no member in the params, in the order of the groups, with none
\* for a group that has a member in the params, and with no error when the
\* key is absent or empty.
C3_GroupErrors ==
    Decorated =>
        /\ verdicts[2].cls = "OrParamsCheck"
        /\ ErrorsOf(verdicts[2].result) = GroupErrorsFor(ValidatedParams, parameters)
        /\ Len(ErrorsOf(verdicts[2].result))
             = Cardinality({i \in DOMAIN GroupsOf(parameters) :
                    Members(GroupsOf(parameters)[i]) \cap KeysOf(ValidatedParams) = {}})
        /\ GroupsOf(parameters) = <<>> => ErrorsOf(verdicts[2].result) = <<>>

\* two groups, the first met by one of its members and the second not
C3_Witness ==
    /\ op = "send_message"
    /\ KeysOf(ValidatedParams) = {"peer_id"}
    /\ Len(ErrorsOf(verdicts[2].result)) = 1

\* C4: the aggregate of set_errors is the errors of RequiredParamsCheck
\* followed by the errors of OrParamsCheck, each rule's errors whole and in
\* their own order, also when the first rule already reported errors.
C4_AggregateIsConcatenation ==
    Decorated =>
        /\ Len(verdicts) = 2
        /\ verdicts[1].cls = "RequiredParamsCheck"
        /\ verdicts[2].cls = "OrParamsCheck"
        /\ errors = ErrorsOf(verdicts[1].result) \o ErrorsOf(verdicts[2].result)

\* both rules report errors in one invocation
C4_Witness ==
    /\ Decorated
    /\ Len(ErrorsOf(verdicts[1].result)) = 2
    /\ Len(ErrorsOf(verdicts[2].result)) = 1
    /\ Len(errors) = 3

\* Scenario B: the params are {} and the configuration is
\* {required_params: ["post_id"]}
ScenarioB ==
    /\ Decorated
    /\ DOMAIN parameters = {"required_params"}
    /\ RequiredOf(parameters) = <<"post_id">>
    /\ "params" \in DOMAIN kwargs
    /\ ValidatedParams.type = "dict"
    /\ KeysOf(ValidatedParams) = {}

\* C5 as the specification states it: in Scenario B the aggregate is
\* ["missing required parameter post_id"].
C5_EnglishMessage ==
    ScenarioB => errors = <<"missing required parameter post_id">>

\* C5, amended: in Scenario B the aggregate is the one-element sequence
\* ['Отсутствует обязательный параметр post_id'], and every error of
\* RequiredParamsCheck is 'Отсутствует обязательный параметр ' followed by
\* a name of required_params.
C5_SourceMessage ==
    /\ ScenarioB => errors =
        <<"\\u041e\\u0442\\u0441\\u0443\\u0442\\u0441\\u0442\\u0432\\u0443\\u0435\\u0442 \\u043e\\u0431\\u044f\\u0437\\u0430\\u0442\\u0435\\u043b\\u044c\\u043d\\u044b\\u0439 \\u043f\\u0430\\u0440\\u0430\\u043c\\u0435\\u0442\\u0440 post_id">>
    /\ Decorated =>
        \A e \in SeqRange(ErrorsOf(verdicts[1].result)) :
            \E n \in Members(RequiredOf(parameters)) :
                e = "\\u041e\\u0442\\u0441\\u0443\\u0442\\u0441\\u0442\\u0432\\u0443\\u0435\\u0442 \\u043e\\u0431\\u044f\\u0437\\u0430\\u0442\\u0435\\u043b\\u044c\\u043d\\u044b\\u0439 \\u043f\\u0430\\u0440\\u0430\\u043c\\u0435\\u0442\\u0440 " \o n

\* Scenario B on the method VkApi declares with that configuration
C5_Witness ==
    /\ ScenarioB
    /\ op = "delete_post"
    /\ Len(errors) = 1

\* C6: whenever the aggregate of an invocation of a decorated operation is
\* empty, the wrapped function is called exactly once, with the positional
\* and keyword arguments of the invocation as they were given, and what it
\* returns is what the invocation returns.
C6_AdmittedCallsThrough ==
    (Decorated /\ errors = <<>>) =>
        /\ called = <<[args |-> args, kwargs |-> kwargs]>>
        /\ func_result.kind # "none"
        /\ outcome = func_result
        /\ trace[1] = "set_errors" /\ trace[2] = "func"

\* an admitted call of a VkApi method that the server answered
C6_Witness ==
    /\ op = "save_photo"
    /\ errors = <<>>
    /\ Len(called) = 1
    /\ outcome.kind = "return"
    /\ outcome.value.status_code = 200

\* the pair the run validated first is the pair validated now
SamePairAsFirst ==
    /\ first.params.type = ValidatedParams.type
    /\ KeysOf(first.params) = KeysOf(ValidatedParams)
    /\ DOMAIN first.parameters = DOMAIN parameters
    /\ \A k \in DOMAIN parameters : first.parameters[k] = parameters[k]

\* C7: whatever invocations of decorated operations came before, passing
\* or failing, validating a pair (params, configuration) gives the
\* aggregate it gave when the run validated that pair first, and the
\* aggregate holds errors of the invoked operation's own configuration only.
C7_NoStateBetweenInvocations ==
    Decorated =>
        /\ SamePairAsFirst => errors = first.errors
        /\ \A e \in SeqRange(errors) :
              \/ e \in SeqRange(RequiredErrorsFor(ValidatedParams, parameters))
              \/ e \in SeqRange(GroupErrorsFor(ValidatedParams, parameters))
        /\ Len(errors) <= Len(RequiredOf(parameters)) + Len(GroupsOf(parameters))

\* the first pair of the run validated again, two invocations later, failing
C7_Witness ==
    /\ Decorated
    /\ first.later = 2
    /\ SamePairAsFirst
    /\ Len(errors) = 4

\* C8: a decorated VkApi method that fails validation raises MissingParams
\* and returns no response, having looked up no operation and sent no
\* request; an unknown operation and an unparseable answer are not raised
\* but returned as responses with the statuses 404 and 502; validation is
\* the first step of every invocation of a decorated method.
C8_RaisedNotReturned ==
    /\ (op \in DOMAIN Declared /\ errors # <<>>) =>
            /\ outcome.kind = "raise"
            /\ outcome.exc = "MissingParams"
            /\ outcome.errors = errors
            /\ trace = <<"set_errors">>
            /\ request = NoRequest
    /\ (op \in DOMAIN Declared /\ errors = <<>>) =>
            trace = <<"set_errors", "func", "has_method", "request", "json">>
    /\ (op = "_send_api_request" /\ ~VkApiMethods_has_method(args[1])) =>
            /\ outcome.kind = "return"
            /\ outcome.value.status_code = 404
            /\ request = NoRequest
    /\ (request # NoRequest /\ ~response.json) =>
            /\ outcome.kind = "return"
            /\ outcome.value.status_code = 502

\* a decorated method admitted, whose answer could not be parsed
C8_Witness ==
    /\ op \in DOMAIN Declared
    /\ errors = <<>>
    /\ request # NoRequest
    /\ ~response.json
    /\ outcome.value.status_code = 502

\* C9 as the specification states it: get_users_info admits the params
\* that hold user_ids and sends the request, and rejects those that do not
\* with MissingParams.
C9_RequiresUserIds ==
    (op = "get_users_info" /\ "params" \in DOMAIN kwargs) =>
        IF "user_ids" \in KeysOf(ValidatedParams)
        THEN outcome.kind = "return" /\ request # NoRequest
        ELSE outcome.kind = "raise" /\ outcome.exc = "MissingParams"

\* C10: when the params dict is passed by position, or params is omitted or
\* None, validation runs against the empty ParameterSet: an operation
\* declared with a non-empty required_params or or_params is rejected with
\* MissingParams, one error for each required name and each group, whatever
\* the positional dict holds, and its body is not executed.
C10_PositionalParamsIgnored ==
    (/\ Decorated
     /\ "params" \notin DOMAIN kwargs \/ ValidatedParams.type = "NoneType"
     /\ RequiredOf(parameters) # <<>> \/ GroupsOf(parameters) # <<>>) =>
        /\ outcome = Raise("MissingParams", errors)
        /\ Len(errors) = Len(RequiredOf(parameters)) + Len(GroupsOf(parameters))
        /\ called = <<>>
        /\ counter = 0

\* delete_post given by position a dict that holds post_id, and rejected
C10_Witness ==
    /\ op = "delete_post"
    /\ Len(args) = 1
    /\ "post_id" \in KeysOf(args[1])
    /\ outcome.kind = "raise"
    /\ outcome.exc = "MissingParams"

=============================================================================
